---- MODULE Spec2Model ----
(***************************************************************************)
(* The natural-language-to-SQL ask pipeline of f1-lakehouse.               *)
(*                                                                         *)
(* Two services implement POST /ask: ai/rag_api/app.py (JSON convention,   *)
(* referred to as variant "app") and ai/rag_api/main.py (fenced-SQL        *)
(* convention, variant "main").  The dashboard (dashboard/app.py, variant  *)
(* "dash") opens the warehouse and resolves the two schemas on start-up.   *)
(*                                                                         *)
(* Text is modelled as a sequence of one-character strings, so that        *)
(* strip, lower, startswith, substring search and the regular expressions  *)
(* of the guards are computed as the code computes them.                   *)
(***************************************************************************)
EXTENDS Integers, Sequences, FiniteSets, TLC

(***************************************************************************)
(* Text primitives (Python str methods and the re patterns in use).        *)
(***************************************************************************)
LowerAlpha == <<"a","b","c","d","e","f","g","h","i","j","k","l","m",
                "n","o","p","q","r","s","t","u","v","w","x","y","z">>
UpperAlpha == <<"A","B","C","D","E","F","G","H","I","J","K","L","M",
                "N","O","P","Q","R","S","T","U","V","W","X","Y","Z">>
Digits == <<"0","1","2","3","4","5","6","7","8","9">>

LowerSet == {LowerAlpha[i] : i \in DOMAIN LowerAlpha}
UpperSet == {UpperAlpha[i] : i \in DOMAIN UpperAlpha}
DigitSet == {Digits[i] : i \in DOMAIN Digits}
ToLower ==
  [c \in UpperSet |-> LowerAlpha[CHOOSE i \in DOMAIN UpperAlpha : UpperAlpha[i] = c]]
ToUpper ==
  [c \in LowerSet |-> UpperAlpha[CHOOSE i \in DOMAIN LowerAlpha : LowerAlpha[i] = c]]

IsLowerCh(c) == c \in LowerSet
IsUpperCh(c) == c \in UpperSet
IsDigitCh(c) == c \in DigitSet
\* str.strip() and \s: blank, newline, tab
IsSpaceCh(c) == c \in {" ", "\n", "\t"}
\* \w of the re module
IsWordCh(c) == IsLowerCh(c) \/ IsUpperCh(c) \/ IsDigitCh(c) \/ c = "_"

LowerCh(c) == IF IsUpperCh(c) THEN ToLower[c] ELSE c
UpperCh(c) == IF IsLowerCh(c) THEN ToUpper[c] ELSE c

\* str.lower() / str.upper()
Lower(s) == [i \in DOMAIN s |-> LowerCh(s[i])]
Upper(s) == [i \in DOMAIN s |-> UpperCh(s[i])]

\* s[i:] and s[:j] with 1-based i, j (SubSeq with clamping)
From(s, i) == SubSeq(s, i, Len(s))
UpTo(s, j) == SubSeq(s, 1, j)

\* index of the first non-blank character, Len(s)+1 when there is none
FirstNonSpace(s) ==
  CHOOSE i \in 1..(Len(s) + 1) :
    /\ i = Len(s) + 1 \/ ~IsSpaceCh(s[i])
    /\ \A j \in 1..(i-1) : IsSpaceCh(s[j])
\* index of the last character that is not in drop, 0 when there is none
LastNotIn(s, drop) ==
  Len(s) - (CHOOSE k \in 0..Len(s) :
              /\ k = Len(s) \/ s[Len(s) - k] \notin drop
              /\ \A j \in (Len(s) - k + 1)..Len(s) : s[j] \in drop)

\* str.strip()
Strip(s) == SubSeq(s, FirstNonSpace(s), LastNotIn(s, {" ", "\n", "\t"}))

\* str.rstrip(";"): removes every trailing semicolon, and only semicolons
RStripSemi(s) == UpTo(s, LastNotIn(s, {";"}))

\* p occurs in s at position i
OccursAt(s, p, i) ==
  /\ i >= 1
  /\ i + Len(p) - 1 <= Len(s)
  /\ \A k \in 1..Len(p) : s[i + k - 1] = p[k]

\* str.startswith(p)
StartsWith(s, p) == OccursAt(s, p, 1)

\* s.find(p) from position lo, 0 when absent
FindFrom(s, p, lo) ==
  IF \E i \in lo..(Len(s) + 1) : OccursAt(s, p, i)
  THEN CHOOSE i \in lo..(Len(s) + 1) :
         OccursAt(s, p, i) /\ \A j \in lo..(i-1) : ~OccursAt(s, p, j)
  ELSE 0

\* p in s
Contains(s, p) == FindFrom(s, p, 1) # 0

\* \b before position i / after position i (word-boundary of the re module)
BoundaryBefore(s, i) ==
  (i <= Len(s) /\ IsWordCh(s[i])) # (i > 1 /\ IsWordCh(s[i-1]))

\* re.search(r"\bword\b", s, flags=re.I) matches at position i (lower is
\* s in lower case)
WordAt(s, lower, w, i) ==
  /\ OccursAt(lower, w, i)
  /\ BoundaryBefore(s, i)
  /\ BoundaryBefore(s, i + Len(w))

\* re.search(r"\bword\b", s, flags=re.I) is not None
HasWord(s, w) ==
  LET lower == Lower(s) IN \E i \in 1..Len(s) : WordAt(s, lower, w, i)

\* f"{n}": decimal rendering of an int
RECURSIVE IntToStr(_)
IntToStr(n) ==
  IF n < 0 THEN <<"-">> \o IntToStr(0 - n)
  ELSE IF n < 10 THEN <<Digits[n + 1]>>
  ELSE IntToStr(n \div 10) \o <<Digits[(n % 10) + 1]>>

(***************************************************************************)
(* Literals of the source, as character sequences.                         *)
(***************************************************************************)
kw_select == <<"s","e","l","e","c","t">>
kw_insert == <<"i","n","s","e","r","t">>
kw_update == <<"u","p","d","a","t","e">>
kw_delete == <<"d","e","l","e","t","e">>
kw_drop == <<"d","r","o","p">>
kw_alter == <<"a","l","t","e","r">>
kw_create == <<"c","r","e","a","t","e">>
kw_truncate == <<"t","r","u","n","c","a","t","e">>
kw_limit == <<"l","i","m","i","t">>
kw_from == <<"f","r","o","m">>
kw_as == <<"a","s">>
kw_table == <<"t","a","b","l","e">>
\* the backquote character (the lexer admits none inside a string)
BQ == "BACKQUOTE"
FenceMark == <<BQ,BQ,BQ>>
FenceSql == <<BQ,BQ,BQ,"s","q","l">>
\* app.py:177  f"SELECT * FROM ({stmt}) AS safe_view LIMIT {AI_MAX_ROWS}"
WrapHead == <<"S","E","L","E","C","T"," ","*"," ","F","R","O","M"," ","(">>
WrapTail == <<")"," ","A","S"," ","s","a","f","e","_","v","i","e","w"," ",
              "L","I","M","I","T"," ">>
\* main.py:87  sql += " LIMIT 200"
AppendLimit == <<" ","L","I","M","I","T"," ","2","0","0">>

\* app.py:172  forbidden = ("insert", ..., "truncate")
forbidden ==
  {kw_insert, kw_update, kw_delete, kw_drop, kw_alter, kw_create, kw_truncate}
\* main.py:82  r"\b(insert|update|delete|drop|alter|create)\b"
MainMutating ==
  {kw_insert, kw_update, kw_delete, kw_drop, kw_alter, kw_create}

(***************************************************************************)
(* Results of a call: a returned value or a raised HTTPException.          *)
(* detail is the fixed message of the raise site, arg the text formatted   *)
(* into it (an endpoint body, an engine diagnostic).                       *)
(***************************************************************************)
NoText == <<>>
Raise(st, msg, a) ==
  [raised |-> TRUE, status |-> st, detail |-> msg, exc |-> "HTTPException",
   arg |-> a, value |-> NoText]
Return(v) ==
  [raised |-> FALSE, status |-> 200, detail |-> "", exc |-> "",
   arg |-> NoText, value |-> v]

(***************************************************************************)
(* SQL guard of app.py.  sql is the value of ai_payload.get("sql", ""):    *)
(* [none |-> TRUE] for JSON null, else its text in s.                      *)
(***************************************************************************)
\* ensure_safe_sql with its two checks in the other order
ensure_safe_sql_keywords_first(sql, maxRows) ==
  LET stmt  == RStripSemi(Strip(sql.s))
      lower == Lower(stmt)
  IN IF sql.none \/ sql.s = NoText
     THEN Raise(400, "AI did not provide SQL.", NoText)
     ELSE IF \E keyword \in forbidden : Contains(lower, keyword)
     THEN Raise(400, "Statement appears to modify data; rejecting.", NoText)
     ELSE IF ~StartsWith(lower, kw_select)
     THEN Raise(400, "Only SELECT statements are allowed.", NoText)
     ELSE Return(WrapHead \o stmt \o WrapTail \o IntToStr(maxRows))

ensure_safe_sql(sql, maxRows) ==
  LET stmt  == RStripSemi(Strip(sql.s))
      lower == Lower(stmt)
  IN IF sql.none \/ sql.s = NoText
     THEN Raise(400, "AI did not provide SQL.", NoText)
     ELSE IF ~StartsWith(lower, kw_select)
     THEN Raise(400, "Only SELECT statements are allowed.", NoText)
     ELSE IF \E keyword \in forbidden : Contains(lower, keyword)
     THEN Raise(400, "Statement appears to modify data; rejecting.", NoText)
     ELSE Return(WrapHead \o stmt \o WrapTail \o IntToStr(maxRows))

(***************************************************************************)
(* SQL guard of main.py.                                                   *)
(***************************************************************************)
\* re.search of main.py:80 (fence, "sql", blanks, lazy group, fence; flags
\* S and I): the group, or matched = FALSE.  The leftmost opening fence
\* tagged sql (any case) followed by blanks and then, lazily, by everything
\* up to the next fence.
FenceSearch(text) ==
  LET open  == FindFrom(Lower(text), FenceSql, 1)
      body  == IF open = 0 THEN 0
               ELSE open + Len(FenceSql) - 1
                    + FirstNonSpace(From(text, open + Len(FenceSql)))
      close == IF open = 0 THEN 0 ELSE FindFrom(text, FenceMark, body)
  IN IF open # 0 /\ close # 0
     THEN [matched |-> TRUE, group |-> SubSeq(text, body, close - 1)]
     ELSE [matched |-> FALSE, group |-> NoText]

\* re.match(r"^\s*select\b", sql, flags=re.I)
MatchesSelect(sql) ==
  LET i == FirstNonSpace(sql)
  IN /\ OccursAt(Lower(sql), kw_select, i)
     /\ BoundaryBefore(sql, i + Len(kw_select))

\* extract_sql, lines 80-81: the statement inside the fence when there is
\* one, else the whole text; stripped of blanks and trailing semicolons
FencedStatement(text) ==
  LET m == FenceSearch(text)
  IN RStripSemi(Strip(IF m.matched THEN m.group ELSE text))

extract_sql(text) ==
  LET sql == FencedStatement(text)
  IN IF \E w \in MainMutating : HasWord(sql, w)
     THEN Raise(400, "Only SELECT queries are allowed.", NoText)
     ELSE IF ~MatchesSelect(sql)
     THEN Raise(400, "Model did not return a SELECT query.", NoText)
     ELSE IF ~HasWord(sql, kw_limit)
     THEN Return(sql \o AppendLimit)
     ELSE Return(sql)

(***************************************************************************)
(* The warehouse engine, as far as the pipeline observes it: the rows a    *)
(* statement returns and whether it writes.  The dialect covered is        *)
(*   stmt  ::= query | (truncate|drop) table name | delete from name       *)
(*   query ::= select star-or-word [from src [as word]] [limit n]          *)
(*   src   ::= name | ( query )                                            *)
(* with "--" starting a comment that runs to the end of the line and ";"   *)
(* separating the statements of one call.  Keywords are case-insensitive.  *)
(* db = [schemas, tables, rows]: the schemas of the catalog, the schemas   *)
(* that hold their layer's tables, and the number of rows of each table.   *)
(***************************************************************************)
Min(a, b) == IF a <= b THEN a ELSE b

\* text with every "--" comment removed up to its line end
RECURSIVE StripComments(_)
StripComments(s) ==
  LET c == FindFrom(s, <<"-","-">>, 1)
      e == IF c = 0 THEN 0 ELSE FindFrom(s, <<"\n">>, c)
  IN IF c = 0 THEN s
     ELSE IF e = 0 THEN UpTo(s, c - 1)
     ELSE UpTo(s, c - 1) \o StripComments(From(s, e))

IsNameCh(c) == IsWordCh(c) \/ c = "."

\* length of the run of name characters at the head of s
NameRun(s) ==
  IF \E i \in DOMAIN s : ~IsNameCh(s[i])
  THEN (CHOOSE i \in DOMAIN s :
          ~IsNameCh(s[i]) /\ \A j \in 1..(i-1) : IsNameCh(s[j])) - 1
  ELSE Len(s)

\* the tokens of a text: names and numbers (lower-cased), and single marks
RECURSIVE Tokens(_)
Tokens(s) ==
  LET t == From(s, FirstNonSpace(s))
  IN IF t = <<>> THEN <<>>
     ELSE IF IsNameCh(t[1])
     THEN <<Lower(UpTo(t, NameRun(t)))>> \o Tokens(From(t, NameRun(t) + 1))
     ELSE <<<<t[1]>>>> \o Tokens(Tail(t))

\* the statements of a call: the token runs between ";", empty runs dropped
RECURSIVE SplitStatements(_)
SplitStatements(toks) ==
  LET semi == IF \E i \in DOMAIN toks : toks[i] = <<";">>
              THEN CHOOSE i \in DOMAIN toks :
                     toks[i] = <<";">> /\ \A j \in 1..(i-1) : toks[j] # <<";">>
              ELSE 0
  IN IF toks = <<>> THEN <<>>
     ELSE IF semi = 0 THEN <<toks>>
     ELSE IF semi = 1 THEN SplitStatements(Tail(toks))
     ELSE <<UpTo(toks, semi - 1)>> \o SplitStatements(From(toks, semi + 1))

IsNumber(tok) == tok # <<>> /\ \A i \in DOMAIN tok : IsDigitCh(tok[i])
IsName(tok) == tok # <<>> /\ \A i \in DOMAIN tok : IsNameCh(tok[i])

RECURSIVE StrToInt(_)
StrToInt(tok) ==
  IF tok = <<>> THEN 0
  ELSE 10 * StrToInt(UpTo(tok, Len(tok) - 1))
       + (CHOOSE d \in 0..9 : Digits[d + 1] = tok[Len(tok)])

TokAt(toks, i) == IF i \in DOMAIN toks THEN toks[i] ELSE <<>>

\* schema.table resolves when the schema holds its tables
SchemaOf(name) ==
  LET dot == FindFrom(name, <<".">>, 1)
  IN IF dot = 0 THEN <<>> ELSE UpTo(name, dot - 1)
TableResolves(name, db) == SchemaOf(name) \in db.tables

ParseFail == [parsed |-> FALSE, bound |-> FALSE, rows |-> 0, next |-> 0]

\* a query starting at token i: whether it parses, whether it binds, the
\* rows it yields and the position after it
RECURSIVE ParseQuery(_, _, _)
ParseQuery(toks, i, db) ==
  LET sel     == TokAt(toks, i + 1)
      hasFrom == TokAt(toks, i + 2) = kw_from
      sub     == TokAt(toks, i + 3) = <<"(">>
      inner   == IF hasFrom /\ sub THEN ParseQuery(toks, i + 4, db)
                 ELSE ParseFail
      srcOk   == IF ~hasFrom THEN TRUE
                 ELSE IF sub
                 THEN inner.parsed /\ TokAt(toks, inner.next) = <<")">>
                 ELSE IsName(TokAt(toks, i + 3))
      srcBound == IF ~hasFrom THEN sel # <<"*">>
                  ELSE IF sub THEN inner.bound
                  ELSE TableResolves(TokAt(toks, i + 3), db)
      srcRows == IF ~hasFrom THEN 1
                 ELSE IF sub THEN inner.rows
                 ELSE db.rows
      afterSrc == IF ~hasFrom THEN i + 2
                  ELSE IF sub THEN inner.next + 1
                  ELSE i + 4
      hasAs   == hasFrom /\ TokAt(toks, afterSrc) = kw_as
      asOk    == ~hasAs \/ IsName(TokAt(toks, afterSrc + 1))
      afterAs == IF hasAs THEN afterSrc + 2 ELSE afterSrc
      hasLim  == TokAt(toks, afterAs) = kw_limit
      limOk   == ~hasLim \/ IsNumber(TokAt(toks, afterAs + 1))
      rows    == IF hasLim /\ limOk
                 THEN Min(srcRows, StrToInt(TokAt(toks, afterAs + 1)))
                 ELSE srcRows
  IN IF /\ TokAt(toks, i) = kw_select
        /\ (sel = <<"*">> \/ IsName(sel))
        /\ srcOk /\ asOk /\ limOk
     THEN [parsed |-> TRUE, bound |-> srcBound, rows |-> rows,
           next |-> IF hasLim THEN afterAs + 2 ELSE afterAs]
     ELSE ParseFail

\* a writing statement: truncate table t, drop table t, delete from t
IsWrite(st) ==
  /\ Len(st) = 3
  /\ \/ TokAt(st, 1) \in {kw_truncate, kw_drop} /\ TokAt(st, 2) = kw_table
     \/ TokAt(st, 1) = kw_delete /\ TokAt(st, 2) = kw_from
  /\ IsName(TokAt(st, 3))

StmtParses(st, db) ==
  \/ IsWrite(st)
  \/ LET q == ParseQuery(st, 1, db) IN q.parsed /\ q.next = Len(st) + 1

\* a statement runs: a query that binds, or a write on a writable session
\* against a table that resolves
StmtRuns(st, db, readOnly) ==
  IF IsWrite(st) THEN ~readOnly /\ TableResolves(TokAt(st, 3), db)
  ELSE ParseQuery(st, 1, db).bound

\* con.execute(sql) / con.sql(sql) followed by .df(): the statements are
\* parsed together, then run in order until one fails.
\*   ok    the call returned a frame,
\*   rows  the rows of the frame (the last statement's),
\*   wrote some statement changed the warehouse before the call ended.
Execute(sql, db, readOnly) ==
  LET sts   == SplitStatements(Tokens(StripComments(sql)))
      n     == Len(sts)
      allP  == n > 0 /\ \A k \in 1..n : StmtParses(sts[k], db)
      \* number of leading statements that run
      ran   == IF ~allP THEN 0
               ELSE IF \A k \in 1..n : StmtRuns(sts[k], db, readOnly) THEN n
               ELSE (CHOOSE k \in 1..n :
                       /\ ~StmtRuns(sts[k], db, readOnly)
                       /\ \A j \in 1..(k-1) : StmtRuns(sts[j], db, readOnly)) - 1
  IN [ok    |-> allP /\ ran = n /\ ~IsWrite(sts[n]),
      rows  |-> IF allP /\ ran = n /\ ~IsWrite(sts[n])
                THEN ParseQuery(sts[n], 1, db).rows ELSE 0,
      wrote |-> \E k \in 1..ran : IsWrite(sts[k])]

(***************************************************************************)
(* Schema resolution.  A schema name is a text; None is the empty text.    *)
(***************************************************************************)
MainPrefix == <<"m","a","i","n","_">>
silver == <<"s","i","l","v","e","r">>
gold == <<"g","o","l","d">>
None == <<>>
SchemaNames == {MainPrefix \o silver, MainPrefix \o gold, silver, gold}

\* the first candidate of a sequence that is among the existing, else None
FirstThat(cands, existing) ==
  IF \E i \in DOMAIN cands : cands[i] \in existing
  THEN cands[CHOOSE i \in DOMAIN cands :
               cands[i] \in existing
               /\ \A j \in 1..(i-1) : cands[j] \notin existing]
  ELSE None

\* app.py resolve_schema: information_schema.schemata is probed for
\* main_<base>, then <base>
resolve_schema(db, base_name) ==
  FirstThat(<<MainPrefix \o base_name, base_name>>, db.schemas)

\* dashboard/app.py resolve_schema: information_schema.tables is probed for
\* the layer's table in main_<base>, then <base>, and the table is read
DashResolveSchema(db, base_name) ==
  FirstThat(<<MainPrefix \o base_name, base_name>>, db.tables)

\* main.py detect_schema_prefix: both probes of the first pair are run and
\* their fetchone() results dropped, so the first pair is returned whatever
\* the catalog holds (a probe of information_schema does not raise); the
\* fall-through default is the same pair
detect_schema_prefix(db) ==
  LET pairs == << <<MainPrefix \o silver, MainPrefix \o gold>>,
                  <<silver, gold>> >>
      probeRaises(pair) == FALSE
  IN IF \E i \in DOMAIN pairs : ~probeRaises(pairs[i])
     THEN pairs[CHOOSE i \in DOMAIN pairs :
                  ~probeRaises(pairs[i])
                  /\ \A j \in 1..(i-1) : probeRaises(pairs[j])]
     ELSE <<MainPrefix \o silver, MainPrefix \o gold>>

\* re.sub(r"\bword\.", repl + ".", sql): every occurrence of word followed
\* by a dot and preceded by a word boundary (case-sensitive)
RECURSIVE ReSubSchema(_, _, _)
ReSubSchema(sql, word, repl) ==
  LET pat  == word \o <<".">>
      hits == {i \in 1..Len(sql) : OccursAt(sql, pat, i) /\ BoundaryBefore(sql, i)}
      i    == CHOOSE h \in hits : \A g \in hits : h <= g
  IN IF hits = {} THEN sql
     ELSE UpTo(sql, i - 1) \o repl \o <<".">>
          \o ReSubSchema(From(sql, i + Len(pat)), word, repl)

(***************************************************************************)
(* The model's JSON output.  A payload is                                  *)
(*   [keys, sql, chart_type, chart_fields, justification]                  *)
(* where keys names the members present and sql = [none, s] (none: JSON    *)
(* null).  JsonDumps renders it compactly; json.loads is its inverse on    *)
(* the documents of the model and fails on every other text.               *)
(***************************************************************************)
k_sql == <<"s","q","l">>
k_chart_type == <<"c","h","a","r","t","_","t","y","p","e">>
k_chart_fields == <<"c","h","a","r","t","_","f","i","e","l","d","s">>
k_justification == <<"j","u","s","t","i","f","i","c","a","t","i","o","n">>
json_null == <<"n","u","l","l">>
KeyOrder == <<"sql", "chart_type", "chart_fields", "justification">>

Quote(s) == <<"\"">> \o s \o <<"\"">>
Member(k, v) == Quote(k) \o <<":">> \o v

RECURSIVE JoinComma(_)
JoinComma(parts) ==
  IF parts = <<>> THEN <<>>
  ELSE IF Len(parts) = 1 THEN parts[1]
  ELSE parts[1] \o <<",">> \o JoinComma(Tail(parts))

JsonObject(members) == <<"{">> \o JoinComma(members) \o <<"}">>

JsonMember(p, key) ==
  CASE key = "sql" ->
         Member(k_sql, IF p.sql.none THEN json_null ELSE Quote(p.sql.s))
    [] key = "chart_type" -> Member(k_chart_type, Quote(p.chart_type))
    [] key = "chart_fields" ->
         Member(k_chart_fields,
                JsonObject(<<Member(<<"x">>, Quote(p.chart_fields.x)),
                             Member(<<"y">>, Quote(p.chart_fields.y))>>))
    [] key = "justification" -> Member(k_justification, Quote(p.justification))

JsonDumps(p) ==
  LET present(key) == key \in p.keys
      keys == SelectSeq(KeyOrder, present)
  IN JsonObject([i \in DOMAIN keys |-> JsonMember(p, keys[i])])

(***************************************************************************)
(* Inputs: what the model may answer and how the endpoint may reply.       *)
(***************************************************************************)
\* candidate statements
c_plain == <<"s","e","l","e","c","t"," ","*"," ","f","r","o","m"," ","s",
    "i","l","v","e","r",".","l","a","p","s">>
c_limit == <<"s","e","l","e","c","t"," ","*"," ","f","r","o","m"," ","s",
    "i","l","v","e","r",".","l","a","p","s"," ","l","i","m","i","t"," ","1",
    "0","0","0">>
c_inner == <<"s","e","l","e","c","t"," ","*"," ","f","r","o","m"," ","(",
    "s","e","l","e","c","t"," ","*"," ","f","r","o","m"," ","g","o","l","d",
    ".","l","a","p","s"," ","l","i","m","i","t"," ","1","0","0","0",")"," ",
    "a","s"," ","x">>
c_upper == <<"S","E","L","E","C","T"," ","*"," ","F","R","O","M"," ","s",
    "i","l","v","e","r",".","l","a","p","s",";">>
c_lead == <<" "," ","s","e","l","e","c","t"," ","*"," ","f","r","o","m"," ",
    "g","o","l","d",".","l","a","p","s"," ","l","i","m","i","t"," ","1">>
c_one == <<"s","e","l","e","c","t"," ","1">>
c_drop == <<"D","R","O","P"," ","T","A","B","L","E"," ","g","o","l","d",".",
    "t","e","a","m","_","e","v","e","n","t","_","s","u","m","m","a","r","y",
    ";"," ","s","e","l","e","c","t"," ","1">>
c_trunc == <<"s","e","l","e","c","t"," ","1"," ","l","i","m","i","t"," ",
    "1",";"," ","t","r","u","n","c","a","t","e"," ","t","a","b","l","e"," ",
    "s","i","l","v","e","r",".","l","a","p","s">>
c_substr == <<"s","e","l","e","c","t"," ","u","p","d","a","t","e","d","_",
    "a","t"," ","f","r","o","m"," ","s","i","l","v","e","r",".","l","a","p",
    "s">>
c_selectx == <<"s","e","l","e","c","t","x"," ","1">>
c_comment == <<"s","e","l","e","c","t"," ","*"," ","f","r","o","m"," ","s",
    "i","l","v","e","r",".","l","a","p","s",")"," ","a","s"," ","x"," ","-",
    "-">>
c_explain == <<"e","x","p","l","a","i","n"," ","s","e","l","e","c","t"," ",
    "1">>
c_blank == <<" "," "," ">>
c_empty == <<>>
\* a statement head, a statement tail, texts, endpoint bodies, diagnostics
t_sorry == <<"S","o","r","r","y",","," ","I"," ","c","a","n","n","o","t",
    " ","a","n","s","w","e","r"," ","t","h","a","t",".">>
t_bar == <<"b","a","r">>
t_ok == <<"o","k">>
t_team == <<"t","e","a","m">>
t_laps == <<"l","a","p","s">>
t_json == <<"j","s","o","n">>
s_then == <<"s","e","l","e","c","t"," ","1",";"," ">>
s_obj == <<" ","x">>
b_boom == <<"b","o","o","m">>
b_overloaded == <<"m","o","d","e","l"," ","o","v","e","r","l","o","a","d",
    "e","d">>
e_refused == <<"c","o","n","n","e","c","t","i","o","n"," ","r","e","f","u",
    "s","e","d">>
e_decode == <<"E","x","p","e","c","t","i","n","g"," ","v","a","l","u","e">>

\* the mutating keyword k in lower and upper case, as the first word of a
\* statement and after a leading select
KeywordCandidates ==
  UNION {{k \o s_obj, Upper(k) \o s_obj,
          s_then \o k \o s_obj, s_then \o Upper(k) \o s_obj} : k \in forbidden}

Candidates ==
  {c_plain, c_limit, c_inner, c_upper, c_lead, c_one, c_drop, c_trunc,
   c_substr, c_selectx, c_comment, c_explain, c_blank, c_empty}
  \cup KeywordCandidates

AllKeys == {"sql", "chart_type", "chart_fields", "justification"}
Str(s) == [none |-> FALSE, s |-> s]
Null == [none |-> TRUE, s |-> NoText]
NoFields == [x |-> NoText, y |-> NoText]

FullPayload(c) ==
  [keys |-> AllKeys, sql |-> Str(c), chart_type |-> t_bar,
   chart_fields |-> [x |-> t_team, y |-> t_laps], justification |-> t_ok]
SqlOnlyPayload(c) ==
  [keys |-> {"sql"}, sql |-> Str(c), chart_type |-> NoText,
   chart_fields |-> NoFields, justification |-> NoText]
NoSqlPayload ==
  [keys |-> {"chart_type"}, sql |-> Str(NoText), chart_type |-> t_bar,
   chart_fields |-> NoFields, justification |-> NoText]
NullSqlPayload ==
  [keys |-> {"sql", "chart_type"}, sql |-> Null, chart_type |-> t_bar,
   chart_fields |-> NoFields, justification |-> NoText]

Payloads ==
  {FullPayload(c) : c \in Candidates}
  \cup {SqlOnlyPayload(c_plain), NoSqlPayload, NullSqlPayload}

\* a fenced block: the fence, a language tag, a separator, the body, the fence
Fenced(tag, sep, body) == FenceMark \o tag \o sep \o body \o sep \o FenceMark

\* contents of the chat endpoint (app.py): a JSON document, bare or
\* fenced, or prose
AppContents ==
  {JsonDumps(p) : p \in Payloads}
  \cup {Fenced(t_json, <<"\n">>, JsonDumps(FullPayload(c_plain))),
        Fenced(NoText, <<"\n">>, JsonDumps(FullPayload(c_limit))),
        Fenced(t_json, <<" ">>, JsonDumps(FullPayload(c_plain))),
        Fenced(NoText, <<" ">>, t_sorry),
        t_sorry}

\* responses of the generate endpoint (main.py): a statement, bare or in a
\* fence tagged sql, or prose
MainRaws ==
  Candidates
  \cup {Fenced(k_sql, <<"\n">>, c) : c \in {c_plain, c_limit, c_drop, c_trunc}}
  \cup {t_sorry}

\* the JSON documents of the model, each with the value it decodes to
JsonDocs == {[text |-> JsonDumps(p), value |-> p] : p \in Payloads}

\* json.loads(text): blanks around the document are ignored
JsonLoads(text) ==
  LET doc  == Strip(text)
      hits == {d \in JsonDocs : d.text = doc}
  IN IF hits = {} THEN [ok |-> FALSE, value |-> NoSqlPayload]
     ELSE [ok |-> TRUE, value |-> (CHOOSE d \in hits : TRUE).value]

\* an exception no handler of the service catches: the framework answers
\* 500 Internal Server Error
Unhandled(e) ==
  [raised |-> TRUE, status |-> 500, detail |-> "Internal Server Error",
   exc |-> e, arg |-> NoText, value |-> NoText]

parse_ai_response(content) ==
  LET stripped == Strip(content)
      fenced   == StartsWith(stripped, FenceMark)
      nl       == FindFrom(stripped, <<"\n">>, 1)
      rest     == From(stripped, nl + 1)
      cleaned  == IF ~fenced THEN stripped
                  ELSE IF Contains(rest, FenceMark)
                  THEN UpTo(rest, FindFrom(rest, FenceMark, 1) - 1)
                  ELSE rest
      parsed   == JsonLoads(cleaned)
  IN IF fenced /\ nl = 0 THEN Unhandled("IndexError")
     ELSE IF ~parsed.ok
     THEN Raise(500, "AI response was not valid JSON: ", e_decode)
     ELSE Return(parsed.value)

\* A reply of the endpoint: a transport failure (exc_text), or a status
\* with a body text and, decoded, the envelope
\*   [message: "absent" | "dict" | "other", content, response]
\* where content is message.content and response the response member,
\* each [present, s].
Absent == [present |-> FALSE, s |-> NoText]
Present(s) == [present |-> TRUE, s |-> s]
TransportFailure ==
  [transport |-> TRUE, exc_text |-> e_refused, status |-> 0, text |-> NoText,
   envelope |-> [message |-> "absent", content |-> Absent, response |-> Absent]]
HttpReply(st, body, env) ==
  [transport |-> FALSE, exc_text |-> NoText, status |-> st, text |-> body,
   envelope |-> env]
ErrorBodies == {b_boom, b_overloaded}
ChatEnvelope(c) == [message |-> "dict", content |-> Present(c), response |-> Absent]
GenerateEnvelope(r) == [message |-> "absent", content |-> Absent, response |-> Present(r)]
EmptyEnvelope == [message |-> "absent", content |-> Absent, response |-> Absent]

AppReplies ==
  {TransportFailure}
  \cup {HttpReply(500, b, EmptyEnvelope) : b \in ErrorBodies}
  \cup {HttpReply(200, NoText, ChatEnvelope(c)) : c \in AppContents \cup {NoText}}
  \cup {HttpReply(200, NoText, EmptyEnvelope),
        HttpReply(200, NoText, [message |-> "other", content |-> Absent,
                                response |-> Present(JsonDumps(FullPayload(c_one)))])}
MainReplies ==
  {TransportFailure}
  \cup {HttpReply(500, b, EmptyEnvelope) : b \in ErrorBodies}
  \cup {HttpReply(200, NoText, GenerateEnvelope(r)) : r \in MainRaws}
  \cup {HttpReply(200, NoText, EmptyEnvelope)}

\* call_ollama without the check of the status (no raise_for_status)
call_ollama_unchecked(reply) ==
  LET data    == reply.envelope
      content == IF data.message = "other" THEN data.response
                 ELSE data.content
  IN IF reply.transport
     THEN Raise(502, "Ollama connection failed: ", reply.exc_text)
     ELSE IF ~content.present \/ content.s = NoText
     THEN Raise(500, "Ollama returned no content.", NoText)
     ELSE parse_ai_response(content.s)

\* app.py call_ollama
call_ollama(reply) ==
  LET data    == reply.envelope
      content == IF data.message = "other" THEN data.response
                 ELSE data.content
  IN IF reply.transport
     THEN Raise(502, "Ollama connection failed: ", reply.exc_text)
     ELSE IF ~(reply.status >= 200 /\ reply.status < 300)
     THEN Raise(502, "Ollama error: ", reply.text)
     ELSE IF ~content.present \/ content.s = NoText
     THEN Raise(500, "Ollama returned no content.", NoText)
     ELSE parse_ai_response(content.s)

\* main.py call_ollama
main_call_ollama(reply) ==
  IF reply.transport THEN Unhandled("httpx.ConnectError")
  ELSE IF reply.status # 200
  THEN Raise(500, "Ollama error: ", reply.text)
  ELSE Return(IF reply.envelope.response.present
              THEN reply.envelope.response.s ELSE NoText)

\* ai_payload.get("sql", "")
GetSql(payload) == IF "sql" \in payload.keys THEN payload.sql ELSE Str(NoText)

(***************************************************************************)
(* The frame of a result and the chart hint.  A column is [name, numeric]. *)
(***************************************************************************)
t_line == <<"l","i","n","e">>
t_table == <<"t","a","b","l","e">>
col_driver == <<"d","r","i","v","e","r">>
col_LapNumber == <<"L","a","p","N","u","m","b","e","r">>
k_lapnumber == <<"l","a","p","n","u","m","b","e","r">>
k_round == <<"r","o","u","n","d">>
k_season == <<"s","e","a","s","o","n">>

\* the columns of the tables of a layer: silver tables hold a driver and a
\* lap number, gold tables a team and a count of laps
TableColumns(name) ==
  IF SchemaOf(name) \in {silver, MainPrefix \o silver}
  THEN <<[name |-> col_driver, numeric |-> FALSE],
         [name |-> col_LapNumber, numeric |-> TRUE]>>
  ELSE <<[name |-> t_team, numeric |-> FALSE],
         [name |-> t_laps, numeric |-> TRUE]>>

\* the columns of the query starting at token i: those of its source for
\* "select *", else the one selected item (a number is a numeric column)
RECURSIVE QueryColumns(_, _)
QueryColumns(toks, i) ==
  LET sel == TokAt(toks, i + 1)
  IN IF sel # <<"*">> THEN <<[name |-> sel, numeric |-> IsNumber(sel)]>>
     ELSE IF TokAt(toks, i + 3) = <<"(">> THEN QueryColumns(toks, i + 4)
     ELSE TableColumns(TokAt(toks, i + 3))

\* df.columns of the frame a statement returned (its last statement's)
Columns(sql) ==
  LET sts == SplitStatements(Tokens(StripComments(sql)))
  IN IF sts = <<>> THEN <<>> ELSE QueryColumns(sts[Len(sts)], 1)

\* main.py suggest_chart: cols are the columns of df, rows is df.shape[0]
suggest_chart(cols, rows) ==
  LET numeric == {i \in DOMAIN cols : cols[i].numeric}
  IN IF /\ Cardinality(numeric) >= 1
        /\ \E k \in {k_lapnumber, k_round, k_season} :
             \E i \in DOMAIN cols : Lower(cols[i].name) = k
     THEN t_line
     ELSE IF Cardinality(numeric) >= 1 /\ rows <= 25
     THEN t_bar
     ELSE t_table

(***************************************************************************)
(* State of one request (variants app, main) or of the dashboard start-up. *)
(***************************************************************************)
VARIABLES
  variant,        \* which program handles the request
  pc,             \* position in its handler
  warehouse,      \* [exists, schemas, tables, rows]: the file and its catalog
  max_rows,       \* AI_MAX_ROWS (app.py), payload.limit (main.py)
  sessions,       \* database sessions opened so far: [read_only, open, ran]
  silver_schema,  \* resolved schema names (None when unresolved)
  gold_schema,
  reply,          \* the endpoint's reply to the model call
  ai_payload,     \* app.py: the parsed model output
  raw,            \* main.py: the model's raw text
  candidate,      \* the candidate statement the guard examines
  safe_sql,       \* the statement handed to the engine
  result,         \* what the engine answered: [ok, rows, wrote]
  outcome,        \* how the request ended
  calls,          \* how often each collaborator was invoked
  \* the ingestion job (fastf1_ingest.py)
  source,         \* what FastF1 serves: [schedule_ok, loadable, nonempty]
  bronze,         \* the bronze root: partition -> [dir, parquet]
  ipc,            \* position of main in its loops
  run,            \* which run of main this is
  season_ix,      \* index of the season of the outer loop
  round_ix,       \* index of the schedule row of the middle loop
  code_ix,        \* index of the session code of the inner loop
  files_written,  \* the files written so far: [run, partition]
  failures        \* the writes that raised so far: [run, partition]

askVars == <<variant, pc, warehouse, max_rows, sessions, silver_schema,
             gold_schema, reply, ai_payload, raw, candidate, safe_sql, result,
             outcome, calls>>

ingestVars == <<source, bronze, ipc, run, season_ix, round_ix, code_ix,
                files_written, failures>>

vars == <<variant, pc, warehouse, max_rows, sessions, silver_schema,
          gold_schema, reply, ai_payload, raw, candidate, safe_sql, result,
          outcome, calls, source, bronze, ipc, run, season_ix, round_ix,
          code_ix, files_written, failures>>

\* AI_MAX_ROWS default (app.py:18), AskIn.limit default (main.py:101)
DefaultMaxRows == 200
\* a smaller configured cap
SmallMaxRows == 2
\* table sizes below and above the default cap
SmallTableRows == 3
BigTableRows == 250

Pending ==
  [raised |-> FALSE, status |-> 0, detail |-> "pending", exc |-> "",
   arg |-> NoText, value |-> NoText]
NoResult == [ok |-> FALSE, rows |-> 0, wrote |-> FALSE]

\* the file is absent; or it exists with any set of the four schemas, which
\* either all hold their layer's tables (of one of two sizes) or are empty
Warehouses ==
  {[exists |-> FALSE, schemas |-> {}, tables |-> {}, rows |-> 0]}
  \cup {[exists |-> TRUE, schemas |-> sc, tables |-> sc, rows |-> n] :
          sc \in SUBSET SchemaNames, n \in {SmallTableRows, BigTableRows}}
  \cup {[exists |-> TRUE, schemas |-> sc, tables |-> {}, rows |-> 0] :
          sc \in SUBSET SchemaNames}

(***************************************************************************)
(* The ingestion job: what it reads and the bronze root it writes.         *)
(***************************************************************************)
\* fastf1_ingest.py:13
SESSION_CODES == <<"FP1", "FP2", "FP3", "Q", "S", "R">>
\* the three tables main writes for a session, in its order
Tables == <<"laps", "weather", "results">>
\* F1_SEASONS, and the rows of a season's schedule: [round_no, gp_slug]
Seasons == <<2024>>
ScheduleRows == <<[round_no |-> 1, gp_slug |-> "bahrain-grand-prix"]>>

\* how many runs of main are followed, how many sessions of a round the
\* source can load, how many writes may raise
MaxRuns == 2
MaxLoadable == 1
MaxFailures == 1

Range(seq) == {seq[i] : i \in DOMAIN seq}

\* partition_dir: the directory of a table's partition under the bronze root
partition_dir(table, season, round_no, gp_slug, code) ==
  [table |-> table, season |-> season, round |-> round_no,
   grand_prix |-> gp_slug, session |-> code]

Partitions ==
  {partition_dir(t, y, row.round_no, row.gp_slug, c) :
     t \in Range(Tables), y \in Range(Seasons), row \in Range(ScheduleRows),
     c \in Range(SESSION_CODES)}

\* the parquet file of a directory: none, one that was there before the
\* first run, one written whole by a run, one left by a write that raised
NoFile == <<"none", 0>>
OldFile == <<"old", 0>>
FileOf(r) == <<"part-00000.parquet", r>>
TornFile(r) == <<"torn", r>>
NoDir == [dir |-> FALSE, parquet |-> NoFile]

\* utils.py dir_has_parquet with nothing found
dir_has_parquet_never(fs, path) == FALSE
\* utils.py dir_has_parquet
dir_has_parquet(fs, path) == fs[path].dir /\ fs[path].parquet # NoFile

\* utils.py write_parquet of a frame that has rows, by run r: the outcomes
\* [fs, raised].  The write succeeds; or, when mayRaise, ensure_dir raises
\* and leaves the root as it was, or to_parquet raises after the directory
\* was made, leaving no file or a torn one.
write_parquet(fs, out_dir, r, mayRaise) ==
  {[fs |-> [fs EXCEPT ![out_dir] = [dir |-> TRUE, parquet |-> FileOf(r)]],
    raised |-> FALSE]}
  \cup (IF ~mayRaise THEN {}
        ELSE {[fs |-> fs, raised |-> TRUE],
              [fs |-> [fs EXCEPT ![out_dir] = [dir |-> TRUE, parquet |-> NoFile]],
               raised |-> TRUE],
              [fs |-> [fs EXCEPT ![out_dir] = [dir |-> TRUE, parquet |-> TornFile(r)]],
               raised |-> TRUE]})

\* what FastF1 serves, the same on every run: whether a schedule is served,
\* the session codes that load (among the first practice, the qualifying
\* and the race; every other code raises), the tables that come with rows
Sources ==
  {[schedule_ok |-> ok, loadable |-> l, nonempty |-> ne] :
     ok \in BOOLEAN,
     l \in {x \in SUBSET {"FP1", "Q", "R"} : Cardinality(x) <= MaxLoadable},
     ne \in {Range(Tables), {"laps"}, {}}}

\* the bronze root before the first run: empty, or holding the laps
\* partition of a qualifying or a race from an earlier time, with a file
\* or without
EmptyBronze == [q \in Partitions |-> NoDir]
InitialBronzes ==
  {EmptyBronze}
  \cup {[EmptyBronze EXCEPT ![q] = [dir |-> TRUE, parquet |-> f]] :
          q \in {x \in Partitions : x.table = "laps" /\ x.session \in {"Q", "R"}},
          f \in {OldFile, NoFile}}

\* the ingestion job is not part of a request
IngestIdle ==
  /\ source = [schedule_ok |-> FALSE, loadable |-> {}, nonempty |-> {}]
  /\ bronze = EmptyBronze
  /\ ipc = "idle"
  /\ run = 0
  /\ season_ix = 0
  /\ round_ix = 0
  /\ code_ix = 0
  /\ files_written = {}
  /\ failures = {}

Init ==
  /\ variant \in {"app", "main", "dash"}
  /\ pc = "start"
  /\ warehouse \in Warehouses
  /\ max_rows \in {SmallMaxRows, DefaultMaxRows}
  /\ sessions = <<>>
  /\ silver_schema = None
  /\ gold_schema = None
  /\ reply = TransportFailure
  /\ ai_payload = NoSqlPayload
  /\ raw = NoText
  /\ candidate = Str(NoText)
  /\ safe_sql = NoText
  /\ result = NoResult
  /\ outcome = Pending
  /\ calls = [connect |-> 0, model |-> 0, guard |-> 0, execute |-> 0]
  /\ IngestIdle

Called(what) == [calls EXCEPT ![what] = @ + 1]

\* duckdb.connect(WAREHOUSE, read_only=ro) succeeded: a new open session
Opened(ro) == Append(sessions, [read_only |-> ro, open |-> TRUE, ran |-> FALSE])
\* a close that is never made
Closed_never(ss) == ss
\* con.close(), and the exit of a with block, on the latest session
Closed(ss) == [ss EXCEPT ![Len(ss)].open = FALSE]
\* the latest session has run a model-derived statement
Ran(ss) == [ss EXCEPT ![Len(ss)].ran = TRUE]

\* the warehouse after a call of the engine
Written(r) == IF r.wrote THEN [warehouse EXCEPT !.rows = 0] ELSE warehouse

\* the request ends with the raised exception
Fails(exc) == outcome' = exc /\ pc' = "done"

(***************************************************************************)
(* app.py ask                                                              *)
(***************************************************************************)
\* ask, line 192: _require_warehouse()
AppRequireWarehouse ==
  /\ variant = "app" /\ pc = "start"
  /\ IF ~warehouse.exists
     THEN Fails(Raise(500, "Warehouse not found at ", NoText))
     ELSE pc' = "connect" /\ UNCHANGED outcome
  /\ UNCHANGED ingestVars
  /\ UNCHANGED <<variant, warehouse, max_rows, sessions, silver_schema,
                 gold_schema, reply, ai_payload, raw, candidate, safe_sql,
                 result, calls>>

\* ask, line 193: with duckdb.connect(WAREHOUSE, read_only=True) as con;
\* the engine may refuse to open the file
AppConnect ==
  /\ variant = "app" /\ pc = "connect"
  /\ calls' = Called("connect")
  /\ \E opens \in BOOLEAN :
       IF opens
       THEN sessions' = Opened(TRUE) /\ pc' = "resolve" /\ UNCHANGED outcome
       ELSE Fails(Unhandled("duckdb.IOException")) /\ UNCHANGED sessions
  /\ UNCHANGED ingestVars
  /\ UNCHANGED <<variant, warehouse, max_rows, silver_schema, gold_schema,
                 reply, ai_payload, raw, candidate, safe_sql, result>>

\* ask, lines 194-204: both layers are resolved, the manifest is read, and
\* the with block is left (closing the session) on either path
AppResolve ==
  /\ variant = "app" /\ pc = "resolve"
  /\ silver_schema' = resolve_schema(warehouse, silver)
  /\ gold_schema' = resolve_schema(warehouse, gold)
  /\ sessions' = Closed(sessions)
  /\ IF silver_schema' = None \/ gold_schema' = None
     THEN Fails(Raise(400, "Silver/Gold schemas not found. Run dbt build first.",
                      NoText))
     ELSE pc' = "ask_model" /\ UNCHANGED outcome
  /\ UNCHANGED ingestVars
  /\ UNCHANGED <<variant, warehouse, max_rows, reply, ai_payload, raw,
                 candidate, safe_sql, result, calls>>

\* the model call with a retry: a raised call leaves the request where it is
AppCallOllama_retrying ==
  /\ variant = "app" /\ pc = "ask_model"
  /\ calls' = Called("model")
  /\ \E r \in AppReplies :
       /\ reply' = r
       /\ \E res \in {call_ollama(r)} :
             IF res.raised
             THEN outcome' = res /\ UNCHANGED <<pc, ai_payload>>
             ELSE ai_payload' = res.value /\ pc' = "guard" /\ UNCHANGED outcome
  /\ UNCHANGED ingestVars
  /\ UNCHANGED <<variant, warehouse, max_rows, sessions, silver_schema,
                 gold_schema, raw, candidate, safe_sql, result>>

\* ask, lines 205-206: the prompt is built and the model called
AppCallOllama ==
  /\ variant = "app" /\ pc = "ask_model"
  /\ calls' = Called("model")
  /\ \E r \in AppReplies :
       /\ reply' = r
       /\ \E res \in {call_ollama(r)} :
             IF res.raised
             THEN Fails(res) /\ UNCHANGED ai_payload
             ELSE ai_payload' = res.value /\ pc' = "guard" /\ UNCHANGED outcome
  /\ UNCHANGED ingestVars
  /\ UNCHANGED <<variant, warehouse, max_rows, sessions, silver_schema,
                 gold_schema, raw, candidate, safe_sql, result>>

\* ask, line 207: safe_sql = ensure_safe_sql(ai_payload.get("sql", ""))
AppGuard ==
  /\ variant = "app" /\ pc = "guard"
  /\ calls' = Called("guard")
  /\ candidate' = GetSql(ai_payload)
  /\ \E res \in {ensure_safe_sql(candidate', max_rows)} :
        IF res.raised
        THEN Fails(res) /\ UNCHANGED safe_sql
        ELSE safe_sql' = res.value /\ pc' = "exec_connect" /\ UNCHANGED outcome
  /\ UNCHANGED ingestVars
  /\ UNCHANGED <<variant, warehouse, max_rows, sessions, silver_schema,
                 gold_schema, reply, ai_payload, raw, result>>

\* execute_sql, line 181: con = duckdb.connect(WAREHOUSE, read_only=True)
AppExecConnect ==
  /\ variant = "app" /\ pc = "exec_connect"
  /\ calls' = Called("connect")
  /\ \E opens \in BOOLEAN :
       IF opens
       THEN sessions' = Opened(TRUE) /\ pc' = "exec" /\ UNCHANGED outcome
       ELSE Fails(Unhandled("duckdb.IOException")) /\ UNCHANGED sessions
  /\ UNCHANGED ingestVars
  /\ UNCHANGED <<variant, warehouse, max_rows, silver_schema, gold_schema,
                 reply, ai_payload, raw, candidate, safe_sql, result>>

\* execute_sql, lines 182-187: the statement runs; finally closes the session
AppExecute ==
  /\ variant = "app" /\ pc = "exec"
  /\ calls' = Called("execute")
  /\ \E r \in {Execute(safe_sql, warehouse, sessions[Len(sessions)].read_only)} :
        /\ result' = r
        /\ warehouse' = Written(r)
        /\ sessions' = Closed(Ran(sessions))
        /\ IF r.ok
           THEN pc' = "respond" /\ UNCHANGED outcome
           ELSE Fails(Raise(400, "DuckDB failed to execute the AI-generated SQL: ",
                            NoText))
  /\ UNCHANGED ingestVars
  /\ UNCHANGED <<variant, max_rows, silver_schema, gold_schema, reply,
                 ai_payload, raw, candidate, safe_sql>>

\* ask, lines 210-225: the chart hint, the message and the response
AppRespond ==
  /\ variant = "app" /\ pc = "respond"
  /\ outcome' =
       Return([sql |-> safe_sql,
               columns |-> Columns(safe_sql),
               row_count |-> result.rows,
               chart |-> [type |-> IF "chart_type" \in ai_payload.keys
                                   THEN ai_payload.chart_type
                                   ELSE t_table,
                          fields |-> IF "chart_fields" \in ai_payload.keys
                                     THEN ai_payload.chart_fields
                                     ELSE NoFields],
               silver_schema |-> silver_schema,
               gold_schema |-> gold_schema])
  /\ pc' = "done"
  /\ UNCHANGED ingestVars
  /\ UNCHANGED <<variant, warehouse, max_rows, sessions, silver_schema,
                 gold_schema, reply, ai_payload, raw, candidate, safe_sql,
                 result, calls>>

(***************************************************************************)
(* main.py ask: the whole handler runs inside "with connect_ro() as con",  *)
(* so every way out of it closes the session.                              *)
(***************************************************************************)
\* connect_ro, line 16: duckdb.connect(WAREHOUSE, read_only=False).  A
\* writable connect creates the file when it is absent; it fails when the
\* engine cannot open or create it.
MainConnect ==
  /\ variant = "main" /\ pc = "start"
  /\ calls' = Called("connect")
  /\ \E opens \in BOOLEAN :
       IF opens
       THEN /\ sessions' = Opened(FALSE)
            /\ warehouse' = [warehouse EXCEPT !.exists = TRUE]
            /\ pc' = "resolve"
            /\ UNCHANGED outcome
       ELSE /\ Fails(Unhandled("duckdb.IOException"))
            /\ UNCHANGED <<sessions, warehouse>>
  /\ UNCHANGED ingestVars
  /\ UNCHANGED <<variant, max_rows, silver_schema, gold_schema, reply,
                 ai_payload, raw, candidate, safe_sql, result>>

\* ask, lines 139-142: the schema pair, the snapshot and the prompt
MainDetect ==
  /\ variant = "main" /\ pc = "resolve"
  /\ silver_schema' = detect_schema_prefix(warehouse)[1]
  /\ gold_schema' = detect_schema_prefix(warehouse)[2]
  /\ pc' = "ask_model"
  /\ UNCHANGED ingestVars
  /\ UNCHANGED <<variant, warehouse, max_rows, sessions, reply, ai_payload,
                 raw, candidate, safe_sql, result, outcome, calls>>

\* ask, line 143: raw = call_ollama(sys + user)
MainCallOllama ==
  /\ variant = "main" /\ pc = "ask_model"
  /\ calls' = Called("model")
  /\ \E r \in MainReplies :
       /\ reply' = r
       /\ \E res \in {main_call_ollama(r)} :
             IF res.raised
             THEN Fails(res) /\ sessions' = Closed(sessions) /\ UNCHANGED raw
             ELSE /\ raw' = res.value
                  /\ pc' = "guard"
                  /\ UNCHANGED <<outcome, sessions>>
  /\ UNCHANGED ingestVars
  /\ UNCHANGED <<variant, warehouse, max_rows, silver_schema, gold_schema,
                 ai_payload, candidate, safe_sql, result>>

\* ask, lines 144-147: extract_sql, then plain schema names are rewritten
MainExtract ==
  /\ variant = "main" /\ pc = "guard"
  /\ calls' = Called("guard")
  /\ candidate' = Str(FencedStatement(raw))
  /\ \E res \in {extract_sql(raw)} :
        IF res.raised
        THEN Fails(res) /\ sessions' = Closed(sessions) /\ UNCHANGED safe_sql
        ELSE /\ safe_sql' = ReSubSchema(ReSubSchema(res.value, silver, silver_schema),
                                        gold, gold_schema)
             /\ pc' = "exec"
             /\ UNCHANGED <<outcome, sessions>>
  /\ UNCHANGED ingestVars
  /\ UNCHANGED <<variant, warehouse, max_rows, silver_schema, gold_schema,
                 reply, ai_payload, raw, result>>

\* ask, lines 148-150: con.sql(sql).df() and the response; an engine error
\* is not caught
MainExecute ==
  /\ variant = "main" /\ pc = "exec"
  /\ calls' = Called("execute")
  /\ \E r \in {Execute(safe_sql, warehouse, sessions[Len(sessions)].read_only)} :
        /\ result' = r
        /\ warehouse' = Written(r)
        /\ sessions' = Closed(Ran(sessions))
        /\ \E cols \in {Columns(safe_sql)} :
             outcome' = IF r.ok
                        THEN Return([sql |-> safe_sql, row_count |-> r.rows,
                                     columns |-> cols,
                                     chart |-> suggest_chart(cols, r.rows)])
                        ELSE Unhandled("duckdb.Error")
        /\ pc' = "done"
  /\ UNCHANGED ingestVars
  /\ UNCHANGED <<variant, max_rows, silver_schema, gold_schema, reply,
                 ai_payload, raw, candidate, safe_sql>>

(***************************************************************************)
(* dashboard/app.py start-up                                               *)
(***************************************************************************)
\* get_con, lines 15-19, and the handler of lines 109-113: the session is a
\* cached resource and stays open
DashGetCon ==
  /\ variant = "dash" /\ pc = "start"
  /\ IF ~warehouse.exists
     THEN /\ Fails(Raise(0, "Could not open DuckDB at ", NoText))
          /\ UNCHANGED <<sessions, calls>>
     ELSE /\ calls' = Called("connect")
          /\ \E opens \in BOOLEAN :
               IF opens
               THEN sessions' = Opened(TRUE) /\ pc' = "resolve"
                    /\ UNCHANGED outcome
               ELSE Fails(Raise(0, "Could not open DuckDB at ", NoText))
                    /\ UNCHANGED sessions
  /\ UNCHANGED ingestVars
  /\ UNCHANGED <<variant, warehouse, max_rows, silver_schema, gold_schema,
                 reply, ai_payload, raw, candidate, safe_sql, result>>

\* lines 115-120: both layers are resolved; the page stops when one is missing
DashResolve ==
  /\ variant = "dash" /\ pc = "resolve"
  /\ silver_schema' = DashResolveSchema(warehouse, silver)
  /\ gold_schema' = DashResolveSchema(warehouse, gold)
  /\ outcome' = IF silver_schema' = None \/ gold_schema' = None
                THEN Raise(0, "Could not resolve schemas.", NoText)
                ELSE Return(NoText)
  /\ pc' = "done"
  /\ UNCHANGED ingestVars
  /\ UNCHANGED <<variant, warehouse, max_rows, sessions, reply, ai_payload,
                 raw, candidate, safe_sql, result, calls>>

Next ==
  \/ AppRequireWarehouse
  \/ AppConnect
  \/ AppResolve
  \/ AppCallOllama
  \/ AppGuard
  \/ AppExecConnect
  \/ AppExecute
  \/ AppRespond
  \/ MainConnect
  \/ MainDetect
  \/ MainCallOllama
  \/ MainExtract
  \/ MainExecute
  \/ DashGetCon
  \/ DashResolve

Spec == Init /\ [][Next]_vars

(***************************************************************************)
(* fastf1_ingest.py main: seasons, schedule rows and session codes are     *)
(* walked in order; every failure is logged and the walk goes on.          *)
(***************************************************************************)
IngestInit ==
  /\ variant = "ingest"
  /\ pc = "start"
  /\ warehouse = [exists |-> FALSE, schemas |-> {}, tables |-> {}, rows |-> 0]
  /\ max_rows = DefaultMaxRows
  /\ sessions = <<>>
  /\ silver_schema = None
  /\ gold_schema = None
  /\ reply = TransportFailure
  /\ ai_payload = NoSqlPayload
  /\ raw = NoText
  /\ candidate = Str(NoText)
  /\ safe_sql = NoText
  /\ result = NoResult
  /\ outcome = Pending
  /\ calls = [connect |-> 0, model |-> 0, guard |-> 0, execute |-> 0]
  /\ source \in Sources
  /\ bronze \in InitialBronzes
  /\ ipc = "schedule"
  /\ run = 1
  /\ season_ix = 1
  /\ round_ix = 1
  /\ code_ix = 1
  /\ files_written = {}
  /\ failures = {}

\* where the loops stand after the season y is over
AfterSeason(y) ==
  IF y < Len(Seasons)
  THEN [ipc |-> "schedule", season_ix |-> y + 1, round_ix |-> 1, code_ix |-> 1]
  ELSE [ipc |-> "finished", season_ix |-> y, round_ix |-> 1, code_ix |-> 1]

\* where the loops stand after the session (y, r, c) is over
AfterSession(y, r, c) ==
  IF c < Len(SESSION_CODES)
  THEN [ipc |-> "load", season_ix |-> y, round_ix |-> r, code_ix |-> c + 1]
  ELSE IF r < Len(ScheduleRows)
  THEN [ipc |-> "load", season_ix |-> y, round_ix |-> r + 1, code_ix |-> 1]
  ELSE AfterSeason(y)

MoveTo(pos) ==
  /\ ipc' = pos.ipc
  /\ season_ix' = pos.season_ix
  /\ round_ix' = pos.round_ix
  /\ code_ix' = pos.code_ix

\* lines 53-59: the schedule of the season; a failure skips the season
IngestSchedule ==
  /\ ipc = "schedule"
  /\ IF source.schedule_ok /\ ScheduleRows # <<>>
     THEN MoveTo([ipc |-> "load", season_ix |-> season_ix, round_ix |-> 1,
                  code_ix |-> 1])
     ELSE MoveTo(AfterSeason(season_ix))
  /\ UNCHANGED <<source, bronze, run, files_written, failures>>
  /\ UNCHANGED askVars

\* lines 78-84: the session is fetched and loaded; a failure skips the session
IngestLoad ==
  /\ ipc = "load"
  /\ IF SESSION_CODES[code_ix] \in source.loadable
     THEN ipc' = "laps" /\ UNCHANGED <<season_ix, round_ix, code_ix>>
     ELSE MoveTo(AfterSession(season_ix, round_ix, code_ix))
  /\ UNCHANGED <<source, bronze, run, files_written, failures>>
  /\ UNCHANGED askVars

\* one of the blocks of lines 86-126 for a table: a frame with rows is
\* written unless its partition already holds a parquet file; an exception
\* is logged
WriteTable(table) ==
  LET out == partition_dir(table, Seasons[season_ix],
                           ScheduleRows[round_ix].round_no,
                           ScheduleRows[round_ix].gp_slug,
                           SESSION_CODES[code_ix])
  IN IF table \notin source.nonempty \/ dir_has_parquet(bronze, out)
     THEN UNCHANGED <<bronze, files_written, failures>>
     ELSE \E o \in write_parquet(bronze, out, run,
                                 Cardinality(failures) < MaxFailures) :
            /\ bronze' = o.fs
            /\ files_written' =
                 IF o.raised THEN files_written
                 ELSE files_written \cup {[run |-> run, partition |-> out]}
            /\ failures' =
                 IF o.raised
                 THEN failures \cup {[run |-> run, partition |-> out]}
                 ELSE failures

\* lines 86-98
IngestLaps ==
  /\ ipc = "laps"
  /\ WriteTable("laps")
  /\ ipc' = "weather"
  /\ UNCHANGED <<source, run, season_ix, round_ix, code_ix>>
  /\ UNCHANGED askVars

\* lines 100-112
IngestWeather ==
  /\ ipc = "weather"
  /\ WriteTable("weather")
  /\ ipc' = "results"
  /\ UNCHANGED <<source, run, season_ix, round_ix, code_ix>>
  /\ UNCHANGED askVars

\* lines 114-126, and the step to the next session
IngestResults ==
  /\ ipc = "results"
  /\ WriteTable("results")
  /\ MoveTo(AfterSession(season_ix, round_ix, code_ix))
  /\ UNCHANGED <<source, run>>
  /\ UNCHANGED askVars

\* line 128 reached, and main is run again over the same source
IngestRerun ==
  /\ ipc = "finished"
  /\ run < MaxRuns
  /\ run' = run + 1
  /\ MoveTo([ipc |-> "schedule", season_ix |-> 1, round_ix |-> 1,
             code_ix |-> 1])
  /\ UNCHANGED <<source, bronze, files_written, failures>>
  /\ UNCHANGED askVars

IngestNext ==
  \/ IngestSchedule
  \/ IngestLoad
  \/ IngestLaps
  \/ IngestWeather
  \/ IngestResults
  \/ IngestRerun

\* the job is a sequential program: a step that can be taken is taken
IngestSpec == IngestInit /\ [][IngestNext]_vars /\ WF_vars(IngestNext)

(***************************************************************************)
(* The failure taxonomy: each raise site of the services, by its message.  *)
(***************************************************************************)
Kind(o) ==
  CASE o.detail = "pending" -> "Pending"
    [] ~o.raised -> "Ok"
    [] o.detail = "Warehouse not found at " -> "WarehouseUnavailable"
    [] o.detail = "Silver/Gold schemas not found. Run dbt build first." ->
         "SchemaUnavailable"
    [] o.detail = "Ollama connection failed: " -> "EndpointUnreachable"
    [] o.detail \in {"Ollama error: ", "Ollama returned no content."} ->
         "EndpointError"
    [] o.detail = "AI response was not valid JSON: " -> "MalformedModelOutput"
    [] o.detail = "AI did not provide SQL." -> "NoStatementProvided"
    [] o.detail \in {"Only SELECT statements are allowed.",
                     "Model did not return a SELECT query."} ->
         "NonSelectStatement"
    [] o.detail \in {"Statement appears to modify data; rejecting.",
                     "Only SELECT queries are allowed."} ->
         "MutatingKeywordDetected"
    [] o.detail = "DuckDB failed to execute the AI-generated SQL: " ->
         "QueryExecutionFailed"
    [] OTHER -> "Unclassified"

GuardRejections ==
  {"NoStatementProvided", "NonSelectStatement", "MutatingKeywordDetected"}

\* the request is an ask request of one of the two services
IsAsk == variant \in {"app", "main"}
\* the guard has examined the candidate
Guarded == IsAsk /\ calls.guard > 0
\* the guard rejected the candidate: the request ended there with one of
\* the guard's reasons, and the engine was never called
Rejected ==
  /\ pc = "done"
  /\ Kind(outcome) \in GuardRejections
  /\ calls.execute = 0

(***************************************************************************)
(* Claims                                                                  *)
(***************************************************************************)
\* the candidate mentions the keyword k as a word, in any letter case
Mentions(k) == ~candidate.none /\ HasWord(candidate.s, k)

\* the first word of the candidate, leading blanks ignored, in lower case
FirstKeyword ==
  LET t == From(candidate.s, FirstNonSpace(candidate.s))
  IN Lower(UpTo(t, NameRun(t)))

\* C1: whenever an ask request has executed its statement and the engine
\* returned a frame, the frame holds at most max_rows rows.
C1_RowCap ==
  (IsAsk /\ calls.execute > 0 /\ result.ok) => result.rows <= max_rows

\* C2: a candidate that mentions insert, update, delete, drop, alter, create
\* or truncate, in any letter case and at any position, is rejected by the
\* guard and never executed.
C2_MutatingRejected ==
  (Guarded /\ \E k \in forbidden : Mentions(k)) => Rejected

\* C3: a candidate whose first keyword (leading blanks ignored, any letter
\* case) is not select is rejected by the guard, and nothing is executed.
C3_NonSelectRejected ==
  (Guarded /\ (candidate.none \/ FirstKeyword # kw_select)) => Rejected

\* C4: every session an ask request uses to execute model-derived SQL was
\* opened read-only, and the pipeline never changes the warehouse.
C4_ReadOnlySessions ==
  IsAsk =>
    /\ \A i \in DOMAIN sessions : sessions[i].ran => sessions[i].read_only
    /\ ~result.wrote

\* the guard has examined the statement of the DROP TABLE scenario
DropScenario == Guarded /\ ~candidate.none /\ candidate.s = c_drop

\* C5 (as stated): when the model returns
\* "DROP TABLE gold.team_event_summary; select 1" the request ends with
\* MutatingKeywordDetected and the engine is never called.
C5_DropIsMutating ==
  DropScenario =>
    /\ pc = "done"
    /\ Kind(outcome) = "MutatingKeywordDetected"
    /\ calls.execute = 0

\* C5 (amended): in that scenario the request ends with a guard rejection
\* and the engine is never called; the reason is NonSelectStatement in
\* app.py, whose select check runs first, and MutatingKeywordDetected in
\* main.py, whose keyword check runs first.
C5_DropIsRejected ==
  DropScenario =>
    /\ pc = "done"
    /\ Kind(outcome) = IF variant = "app" THEN "NonSelectStatement"
                       ELSE "MutatingKeywordDetected"
    /\ calls.execute = 0

C5_Witness ==
  DropScenario /\ variant = "app" /\ reply.envelope.content.present

\* C6: when the warehouse file is absent, an ask request attempts no
\* connection and calls no model, and it ends with WarehouseUnavailable.
C6_AbsentWarehouseFailsFast ==
  (IsAsk /\ ~warehouse.exists) =>
    /\ calls.connect = 0
    /\ calls.model = 0
    /\ pc = "done" => Kind(outcome) = "WarehouseUnavailable"

\* C7: when an ask request has terminated, whatever the exit path, none of
\* the sessions it opened is still open.
C7_SessionsReleased ==
  (IsAsk /\ pc = "done") => \A i \in DOMAIN sessions : ~sessions[i].open

\* a request that opened both of its sessions and ended in an engine failure
C7_Witness ==
  /\ IsAsk /\ pc = "done"
  /\ Len(sessions) = 2
  /\ Kind(outcome) = "QueryExecutionFailed"

\* the candidate is absent (no sql member, JSON null), empty or blank
BlankCandidate == candidate.none \/ Strip(candidate.s) = NoText

\* C8: an empty or blank candidate, and a model output without an sql
\* member, is rejected with NoStatementProvided, and the engine is not called.
C8_BlankIsNoStatement ==
  (Guarded /\ BlankCandidate) =>
    /\ pc = "done"
    /\ Kind(outcome) = "NoStatementProvided"
    /\ calls.execute = 0

\* the model has been called and the endpoint answered with status 500
Http500 == IsAsk /\ calls.model > 0 /\ ~reply.transport /\ reply.status = 500

\* C9: when the endpoint answers 500 the request ends with EndpointError,
\* the detail carrying the endpoint's body, and no statement is guarded or
\* executed; a transport failure never ends with EndpointError.
C9_EndpointError ==
  /\ Http500 =>
       /\ pc = "done"
       /\ Kind(outcome) = "EndpointError"
       /\ outcome.detail = "Ollama error: "
       /\ outcome.arg = reply.text
       /\ calls.guard = 0
       /\ calls.execute = 0
  /\ (IsAsk /\ calls.model > 0 /\ reply.transport) =>
       /\ pc = "done"
       /\ Kind(outcome) # "EndpointError"

C9_Witness == Http500 /\ reply.text = b_overloaded /\ variant = "app"

\* the program has resolved its schemas
Resolved == Len(sessions) >= 1 /\ pc # "resolve"

\* what counts as existing for the resolver of each program: a schema of
\* the catalog (app.py), a schema holding the layer's table (the others)
ExistsInCatalog(schema) ==
  IF variant = "app" THEN schema \in warehouse.schemas
  ELSE schema \in warehouse.tables

\* the resolution the contract asks for
ResolvesAsSpecified(base, got) ==
  /\ ExistsInCatalog(MainPrefix \o base) => got = MainPrefix \o base
  /\ (~ExistsInCatalog(MainPrefix \o base) /\ ExistsInCatalog(base)) => got = base
  /\ (~ExistsInCatalog(MainPrefix \o base) /\ ~ExistsInCatalog(base)) => got = None

\* C10: resolution returns main_<base> when it exists, else <base> when it
\* exists, else the not-found signal.
C10_ResolutionOrder ==
  Resolved =>
    /\ ResolvesAsSpecified(silver, silver_schema)
    /\ ResolvesAsSpecified(gold, gold_schema)

\* neither logical layer resolves: none of main_silver, silver, main_gold
\* and gold exists for the program's resolver
NeitherLayerResolves ==
  \A base \in {silver, gold} :
    ~ExistsInCatalog(MainPrefix \o base) /\ ~ExistsInCatalog(base)

\* C11: when neither layer resolves to an existing schema, the ask request
\* ends with SchemaUnavailable, and neither the model nor the engine has
\* been called.
C11_SchemaUnavailableFirst ==
  (IsAsk /\ Resolved /\ NeitherLayerResolves) =>
    /\ calls.model = 0
    /\ calls.execute = 0
    /\ pc = "done" => Kind(outcome) = "SchemaUnavailable"

\* C12: within one ask request the model is called at most once and the
\* statement executed at most once, and a failure is terminal: once a
\* component has raised, no step of the request changes anything.
C12_OnceAndTerminal ==
  /\ [](IsAsk => (calls.model <= 1 /\ calls.guard <= 1 /\ calls.execute <= 1))
  /\ [][(IsAsk /\ outcome.raised) => UNCHANGED vars]_vars

\* a request whose last component failed after each earlier one ran once
C12_Witness ==
  /\ IsAsk /\ pc = "done" /\ outcome.raised
  /\ calls.model = 1 /\ calls.guard = 1 /\ calls.execute = 1

\* the content call_ollama of app.py has read from a 200 reply
HasContent ==
  /\ variant = "app" /\ calls.model > 0
  /\ ~reply.transport /\ reply.status = 200
  /\ reply.envelope.message = "dict"
  /\ reply.envelope.content.present
  /\ reply.envelope.content.s # NoText

\* a document bare, or in a fenced block with or without a language tag,
\* on several lines or on one
Wrappings(doc) ==
  {doc} \cup {Fenced(tag, sep, doc) : tag \in {NoText, t_json},
                                      sep \in {<<"\n">>, <<" ">>}}

\* every wrapping of a payload that has all four keys, with the payload
WellFormed ==
  UNION {{[text |-> w, value |-> FullPayload(c)] :
            w \in Wrappings(JsonDumps(FullPayload(c)))} : c \in Candidates}

\* every wrapping of every JSON document of the model
ExpectedJson == UNION {Wrappings(d.text) : d \in JsonDocs}

\* C13: a well-formed payload with the four keys, bare or wrapped in a
\* fenced block (tagged or not, on one line or several), is parsed to
\* exactly those four fields with their values.
C13_RoundTrip ==
  \A w \in WellFormed :
    (HasContent /\ reply.envelope.content.s = w.text) => ai_payload = w.value

\* C14: a content that is not the expected JSON ends the request with
\* MalformedModelOutput carrying the decode error, and nothing is guarded
\* or executed.
C14_MalformedIsClassified ==
  (HasContent /\ reply.envelope.content.s \notin ExpectedJson) =>
    /\ pc = "done"
    /\ Kind(outcome) = "MalformedModelOutput"
    /\ outcome.arg = e_decode
    /\ calls.guard = 0
    /\ calls.execute = 0

\* the chart types a consumer can draw
UsableTypes == {t_table, t_line, t_bar, <<"s","c","a","t","t","e","r">>}

\* the request ended with a response
Responded == IsAsk /\ pc = "done" /\ Kind(outcome) = "Ok"

\* the chart type of the response
ChartType ==
  IF variant = "app" THEN outcome.value.chart.type ELSE outcome.value.chart

ColumnNames == {outcome.value.columns[i].name : i \in DOMAIN outcome.value.columns}

\* the model gave a usable type and both axis fields are columns of the result
HintHolds ==
  /\ variant = "app"
  /\ {"chart_type", "chart_fields"} \subseteq ai_payload.keys
  /\ ai_payload.chart_type \in UsableTypes
  /\ ai_payload.chart_fields.x \in ColumnNames
  /\ ai_payload.chart_fields.y \in ColumnNames

\* the heuristic value for the result of the response
Heuristic ==
  LET cols    == outcome.value.columns
      numeric == \E i \in DOMAIN cols : cols[i].numeric
      lapLike == \E i \in DOMAIN cols :
                   Lower(cols[i].name) \in {k_lapnumber, k_round, k_season}
  IN IF lapLike /\ numeric THEN t_line
     ELSE IF numeric /\ outcome.value.row_count <= 25 THEN t_bar
     ELSE t_table

\* C15: the chart type of a response is the model's when it is usable and
\* both axis fields are columns of the result, and the heuristic value
\* (line, bar or table) otherwise.
C15_ChartHint ==
  Responded =>
    ChartType = IF HintHolds THEN ai_payload.chart_type ELSE Heuristic

\* the partitions a run is to fill: those of the sessions that load, for
\* the tables that come with rows
Eligible ==
  {q \in Partitions : /\ source.schedule_ok
                      /\ q.session \in source.loadable
                      /\ q.table \in source.nonempty}

\* the partition directory holds a parquet file
HoldsParquet(q) == bronze[q].parquet # NoFile

\* a partition that holds a parquet file is left as it is by every step
NoOverwrite ==
  \A q \in Partitions : HoldsParquet(q) => bronze'[q] = bronze[q]

\* when a run has finished, every partition it was to fill holds a file,
\* but for those whose write raised in this run
RunProcessedAll ==
  ipc = "finished" =>
    \A q \in Eligible :
      \/ HoldsParquet(q)
      \/ [run |-> run, partition |-> q] \in failures

\* C16 (as stated): no step changes a partition that holds a parquet file;
\* a second run writes no files; a failure does not stop a run, which
\* processes the remaining sessions and reaches the finished state.
C16_NoOverwriteIdempotent ==
  /\ [][NoOverwrite]_vars
  /\ [](\A w \in files_written : w.run = 1)
  /\ []RunProcessedAll
  /\ (ipc # "finished") ~> (ipc = "finished")

\* C16 (amended): as above, but a second run writes exactly into the
\* partitions whose write raised earlier and left no file: it writes no
\* files when no write of the first run raised.
C16_NoOverwriteRetriesFailed ==
  /\ [][NoOverwrite]_vars
  /\ [](\A w \in files_written :
          w.run > 1 => \E f \in failures :
                         f.run < w.run /\ f.partition = w.partition)
  /\ []RunProcessedAll
  /\ (ipc # "finished") ~> (ipc = "finished")

\* the last run has finished over a root that held an old file in a
\* partition it was to fill, after a write raised and another succeeded
C16_Witness ==
  /\ ipc = "finished" /\ run = MaxRuns
  /\ \E q \in Eligible : bronze[q].parquet = OldFile
  /\ failures # {}
  /\ \E w \in files_written : w.run = 1

====
